---- MODULE Spec2Model ----
(***************************************************************************)
(* Model of saltext.grafana.states.grafana_datasource: the states present  *)
(* and absent, the lookup _get_datasource, the payload builder             *)
(* _get_json_data and the dictionary diff _diff, run against a Grafana     *)
(* server holding a list of data source records.                           *)
(*                                                                         *)
(* Python values are written as tokens: "True", "False", "None", the       *)
(* integers "0", "1", ...; every other token is a Python str.  A dict is a *)
(* function from its keys to values.  The result None of the lookup is     *)
(* written as the empty dict: the code only ever tests its truth value.    *)
(***************************************************************************)
EXTENDS Integers, Sequences, FiniteSets, TLC

VARIABLES
    datasources,   \* server: the records GET /api/datasources lists, in order
    nextId,        \* server: index in Ids of the id the next created record gets
    lastApplied,   \* server: the last mutating request it applied
    pc,            \* per invocation slot: idle, lookup, mutate, returned, raised
    op,            \* per slot: "present" or "absent"
    args,          \* per slot: the arguments of the call
    datasource,    \* per slot: local `datasource` (result of the lookup)
    ret,           \* per slot: local `ret`, the state result being built
    calls,         \* per slot: the HTTP calls the invocation has made so far
    prev,          \* the invocation that ended before the running one
    dOld, dNew,    \* the caller's mappings handed to _diff
    dRes,          \* what _diff returned
    dpc            \* position of the _diff caller: "call" or "done"

srv  == <<datasources, nextId, lastApplied>>
inv  == <<pc, op, args, datasource, ret, calls, prev>>
dif  == <<dOld, dNew, dRes, dpc>>
vars == <<datasources, nextId, lastApplied, pc, op, args, datasource, ret,
          calls, prev, dOld, dNew, dRes, dpc>>

----------------------------------------------------------------------------
(* Bounds *)

MaxId == 3          \* ids the server can hand out
MaxDiffVals == 3    \* values a key of a _diff argument ranges over

----------------------------------------------------------------------------
(* Python values and dicts *)

PyTrue  == "True"
PyFalse == "False"
PyNone  == "None"

EmptyDict == [k \in {} |-> PyNone]

\* The value None returned by _get_datasource (falsy, like the empty dict).
None == EmptyDict

\* bool(d) of a dict or None.
Truthy(d) == DOMAIN d # {}

\* Python ==  on the values used here: bool is an int, so True == 1, False == 0.
PyEq(a, b) ==
    \/ a = b
    \/ {a, b} = {"True", "1"}
    \/ {a, b} = {"False", "0"}

\* del d[key]
Del(d, key) == [k \in DOMAIN d \ {key} |-> d[k]]

----------------------------------------------------------------------------
(* _diff *)

\* The loop body without its first branch (id, orgId).
DiffKeyNoServerKeys(st, key) ==
    IF key \notin DOMAIN st.new
      THEN [old |-> Del(st.old, key), new |-> st.new]
    ELSE IF PyEq(st.old[key], st.new[key])
      THEN [old |-> Del(st.old, key), new |-> Del(st.new, key)]
    ELSE st

\* The loop body without its last branch (equal values).
DiffKeyKeepEqual(st, key) ==
    IF key \in {"id", "orgId"}
      THEN [old |-> Del(st.old, key), new |-> st.new]
    ELSE IF key \notin DOMAIN st.new
      THEN [old |-> Del(st.old, key), new |-> st.new]
    ELSE st

\* One iteration of the loop of _diff on `key`; st = [old, new] are the copies.
DiffKey(st, key) ==
    IF key \in {"id", "orgId"}
      THEN [old |-> Del(st.old, key), new |-> st.new]
    ELSE IF key \notin DOMAIN st.new
      THEN [old |-> Del(st.old, key), new |-> st.new]
    ELSE IF PyEq(st.old[key], st.new[key])
      THEN [old |-> Del(st.old, key), new |-> Del(st.new, key)]
    ELSE st

\* for key in old_keys: ...   (old_keys is a view of the caller's dict, which
\* the loop never changes; an iteration touches its own key only)
RECURSIVE DiffLoop(_, _)
DiffLoop(keys, st) ==
    IF keys = {} THEN st
    ELSE LET key == CHOOSE k \in keys : TRUE
         IN  DiffLoop(keys \ {key}, DiffKey(st, key))

_diff(old, new) == DiffLoop(DOMAIN old, [old |-> old, new |-> new])

----------------------------------------------------------------------------
(* A caller of _diff with arbitrary mappings *)

DiffKeys == {"id", "orgId", "type", "isDefault"}
DiffValPool == <<"a", "True", "1", "b", "False", "0">>
DiffVals == {DiffValPool[i] : i \in 1..MaxDiffVals}
DiffDicts == UNION {[K -> DiffVals] : K \in SUBSET DiffKeys}

Idle == [p \in {1, 2} |-> "idle"]

InitDiff ==
    /\ dOld \in DiffDicts
    /\ dNew \in DiffDicts
    /\ dRes = [old |-> EmptyDict, new |-> EmptyDict]
    /\ dpc = "call"
    /\ datasources = <<>>
    /\ nextId = 1
    /\ lastApplied = [method |-> "none"]
    /\ pc = Idle
    /\ op = [p \in {1, 2} |-> "none"]
    /\ args = [p \in {1, 2} |-> EmptyDict]
    /\ datasource = [p \in {1, 2} |-> None]
    /\ ret = [p \in {1, 2} |-> EmptyDict]
    /\ calls = [p \in {1, 2} |-> <<>>]
    /\ prev = [op |-> "none"]

\* changes = _diff(old, new); old and new are copied, the caller's stay as is.
DiffCall ==
    /\ dpc = "call"
    /\ dRes' = _diff(dOld, dNew)
    /\ dpc' = "done"
    /\ UNCHANGED <<dOld, dNew, srv, inv>>

NextDiff == DiffCall

SpecDiff == InitDiff /\ [][NextDiff]_vars

----------------------------------------------------------------------------
(* Configuration and inputs *)

\* __salt__["config.option"]("grafana"): the profile of the module docstring,
\* without grafana_timeout, so that the default of profile.get applies.
GrafanaProfile ==
    [grafana_url |-> "https://url.com", grafana_token |-> "qwertyuiop"]

DefaultTimeout == 3

\* profile.get("grafana_timeout", 3)
GetTimeout(profile) ==
    IF "grafana_timeout" \in DOMAIN profile
      THEN profile.grafana_timeout ELSE DefaultTimeout

Procs == {1, 2}
Names == {"influxdb", "graphite"}
Users == {"", "myuser"}
Booleans == {PyFalse, PyTrue}

\* _get_url with the id of the first record instead of the one handed in.
GetUrlFirst(profile, datasource_id) ==
    profile.grafana_url \o "/api/datasources/" \o "1"

_get_url(profile, datasource_id) ==
    profile.grafana_url \o "/api/datasources/" \o datasource_id

ListUrl(profile) == profile.grafana_url \o "/api/datasources"

_get_headers(profile) ==
    [Accept |-> "application/json",
     Authorization |-> "Bearer " \o profile.grafana_token]

\* _get_json_data with basic_auth and is_default put under each other's key.
GetJsonDataSwapped(name, type, url, access, user, password, database, basic_auth, basic_auth_user, basic_auth_password, is_default, json_data) ==
    [name |-> name, type |-> type, url |-> url, access |-> access,
     user |-> user, password |-> password, database |-> database,
     basicAuth |-> is_default, basicAuthUser |-> basic_auth_user,
     basicAuthPassword |-> basic_auth_password, isDefault |-> basic_auth,
     jsonData |-> json_data]

_get_json_data(name, type, url, access, user, password, database, basic_auth, basic_auth_user, basic_auth_password, is_default, json_data) ==
    [name |-> name, type |-> type, url |-> url, access |-> access,
     user |-> user, password |-> password, database |-> database,
     basicAuth |-> basic_auth, basicAuthUser |-> basic_auth_user,
     basicAuthPassword |-> basic_auth_password, isDefault |-> is_default,
     jsonData |-> json_data]

\* The desired payload with the fields left out whose value is falsy.
DataOnlyTruthy(a) ==
    LET d == _get_json_data(a.name, a.type, a.url, a.access, a.user, a.password,
                            a.database, a.basic_auth, a.basic_auth_user,
                            a.basic_auth_password, a.is_default, a.json_data)
    IN  [k \in {x \in DOMAIN d : d[x] \notin {"", PyFalse, PyNone}} |-> d[k]]

\* `data` of present, built from the arguments of the call.
Data(a) ==
    _get_json_data(a.name, a.type, a.url, a.access, a.user, a.password,
                   a.database, a.basic_auth, a.basic_auth_user,
                   a.basic_auth_password, a.is_default, a.json_data)

----------------------------------------------------------------------------
(* The Grafana server behind the REST interface: it keeps the names of its  *)
(* records unique, assigns id and orgId, and applies a request at once.  A  *)
(* request either gets no response (requests raises), or a response with a  *)
(* status; status 0 stands for "no response".                               *)

IdPool == <<"1", "2", "3", "4", "5", "6">>

Indexes(ds, name) == {i \in 1..Len(ds) : ds[i].name = name}
\* The records the server's router finds for the path of `url`.
Routed(ds, url) ==
    {i \in 1..Len(ds) : "https://url.com/api/datasources/" \o ds[i].id = url}
Remove(ds, i) == [j \in 1..(Len(ds) - 1) |-> IF j < i THEN ds[j] ELSE ds[j + 1]]

\* POST /api/datasources: names are unique; the server assigns id and orgId.
ServerPost(ds, nid, data) ==
    IF Indexes(ds, data.name) # {}
      THEN [status |-> 409, ds |-> ds, nid |-> nid, applied |-> FALSE]
      ELSE [status |-> 200,
            ds |-> Append(ds, [k \in DOMAIN data \cup {"id", "orgId"} |->
                                 IF k = "id" THEN IdPool[nid]
                                 ELSE IF k = "orgId" THEN "1" ELSE data[k]]),
            nid |-> nid + 1, applied |-> TRUE]

\* PUT /api/datasources/{id}: replaces the fields of the body in that record.
ServerPut(ds, nid, url, data) ==
    IF Routed(ds, url) = {}
      THEN [status |-> 404, ds |-> ds, nid |-> nid, applied |-> FALSE]
    ELSE LET i == CHOOSE j \in Routed(ds, url) : TRUE
         IN  IF Indexes(ds, data.name) \ {i} # {}
               THEN [status |-> 409, ds |-> ds, nid |-> nid, applied |-> FALSE]
               ELSE [status |-> 200,
                     ds |-> [ds EXCEPT ![i] =
                               [k \in DOMAIN ds[i] \cup DOMAIN data |->
                                  IF k \in DOMAIN data THEN data[k] ELSE ds[i][k]]],
                     nid |-> nid, applied |-> TRUE]

\* DELETE /api/datasources/{id}
ServerDelete(ds, nid, url) ==
    IF Routed(ds, url) = {}
      THEN [status |-> 404, ds |-> ds, nid |-> nid, applied |-> FALSE]
    ELSE LET i == CHOOSE j \in Routed(ds, url) : TRUE
         IN  [status |-> 200, ds |-> Remove(ds, i), nid |-> nid, applied |-> TRUE]

\* What can come of a mutating request the server would handle as `handled`:
\* the server handles it and answers; it handles it and the answer is lost
\* (timeout); it refuses it (500); the connection fails.
Outcomes(ds, nid, handled) ==
    {handled,
     [handled EXCEPT !.status = 0],
     [status |-> 500, ds |-> ds, nid |-> nid, applied |-> FALSE],
     [status |-> 0, ds |-> ds, nid |-> nid, applied |-> FALSE]}

\* What can come of GET /api/datasources: the list; no response; an error
\* status with a body that is not JSON (a proxy's page) or that is a JSON
\* object (the server's {"message": ...}).
GetResponses(ds) ==
    {[status |-> 200, kind |-> "list", json |-> ds],
     [status |-> 0, kind |-> "none", json |-> <<>>],
     [status |-> 500, kind |-> "nonjson", json |-> <<>>],
     [status |-> 500, kind |-> "object", json |-> <<>>]}

----------------------------------------------------------------------------
(* The lookup *)

\* The first record of the list, whatever its name.
FindFirstOfList(data, name) ==
    IF data = <<>> THEN None ELSE data[1]

\* First record of the list with the given name, else None:
\*   for datasource in data: if datasource["name"] == name: return datasource
FindByName(data, name) ==
    IF Indexes(data, name) = {} THEN None
    ELSE data[CHOOSE i \in Indexes(data, name) :
                  \A j \in Indexes(data, name) : i <= j]

\* _get_datasource after the GET: [raised, datasource].  requests.get raises
\* when there is no response; response.json() raises on a body that is not
\* JSON; a JSON object is iterated by its keys and indexing a key with
\* "name" raises TypeError.  The status is not looked at.
_get_datasource(response, name) ==
    IF response.status = 0 \/ response.kind \in {"nonjson", "object"}
      THEN [raised |-> TRUE, datasource |-> None]
      ELSE [raised |-> FALSE, datasource |-> FindByName(response.json, name)]

----------------------------------------------------------------------------
(* present and absent, one step per HTTP call *)

\* Raising on every status but 200, as raise_for_status would.
RaisedOnErrorStatus(status) == status # 200

\* Whether a requests call raises: only when no response came.  The status
\* of a response is never looked at (no raise_for_status).
Raised(status) == status = 0

\* A lookup that is tried again when it raised.
AfterLookupRetry(o, got) ==
    IF got.raised THEN "lookup"
    ELSE IF o = "absent" /\ ~Truthy(got.datasource) THEN "returned"
    ELSE "mutate"

\* Where an invocation goes after the lookup.
AfterLookup(o, got) ==
    IF got.raised THEN "raised"
    ELSE IF o = "absent" /\ ~Truthy(got.datasource) THEN "returned"
    ELSE "mutate"

Call(method, url, data, status) ==
    [method |-> method, url |-> url, data |-> data,
     headers |-> _get_headers(GrafanaProfile),
     timeout |-> GetTimeout(GrafanaProfile), status |-> status]

Applied(method, url, data, out) ==
    IF out.applied THEN [method |-> method, url |-> url, data |-> data]
    ELSE lastApplied

\* present(name, type, url, user=..., basic_auth=...): entry, up to the lookup.
Present(p, name, user, basic_auth) ==
    /\ pc[p] = "idle"
    /\ op' = [op EXCEPT ![p] = "present"]
    /\ args' = [args EXCEPT ![p] =
                  [name |-> name, type |-> "influxdb",
                   url |-> "http://localhost:8086", access |-> "proxy",
                   user |-> user, password |-> "", database |-> "",
                   basic_auth |-> basic_auth, basic_auth_user |-> "",
                   basic_auth_password |-> "", is_default |-> PyFalse,
                   json_data |-> PyNone]]
    /\ ret' = [ret EXCEPT ![p] = [name |-> name, result |-> PyNone,
                                  comment |-> PyNone, changes |-> EmptyDict]]
    /\ calls' = [calls EXCEPT ![p] = <<>>]
    /\ datasource' = [datasource EXCEPT ![p] = None]
    /\ pc' = [pc EXCEPT ![p] = "lookup"]
    /\ UNCHANGED <<srv, prev, dif>>

\* absent(name): entry, up to the lookup.
Absent(p, name) ==
    /\ pc[p] = "idle"
    /\ op' = [op EXCEPT ![p] = "absent"]
    /\ args' = [args EXCEPT ![p] = [name |-> name]]
    /\ ret' = [ret EXCEPT ![p] = [result |-> PyNone, comment |-> PyNone,
                                  changes |-> EmptyDict]]
    /\ calls' = [calls EXCEPT ![p] = <<>>]
    /\ datasource' = [datasource EXCEPT ![p] = None]
    /\ pc' = [pc EXCEPT ![p] = "lookup"]
    /\ UNCHANGED <<srv, prev, dif>>

\* datasource = _get_datasource(profile, name); absent returns at once when
\* the lookup finds nothing.
GetDatasource(p) ==
    /\ pc[p] = "lookup"
    /\ \E response \in GetResponses(datasources) :
         LET got == _get_datasource(response, args[p].name)
         IN  /\ calls' = [calls EXCEPT ![p] =
                   Append(@, Call("GET", ListUrl(GrafanaProfile), EmptyDict,
                                  response.status))]
             /\ datasource' = [datasource EXCEPT ![p] = got.datasource]
             /\ pc' = [pc EXCEPT ![p] = AfterLookup(op[p], got)]
             /\ IF ~got.raised /\ op[p] = "absent" /\ ~Truthy(got.datasource)
                  THEN ret' = [ret EXCEPT ![p] =
                             [@ EXCEPT !.result = PyTrue,
                                       !.comment = "Data source " \o args[p].name
                                                   \o " already absent"]]
                  ELSE ret' = ret
    /\ UNCHANGED <<srv, op, args, prev, dif>>

\* The branch `if datasource:` of present: requests.put, then the diff.
PresentPutResultAlwaysUpdated(r, name, changes) ==
    [r EXCEPT !.result = PyTrue, !.changes = changes,
              !.comment = "Data source " \o name \o " updated"]

PresentPutResult(r, name, changes) ==
    IF Truthy(changes.new) \/ Truthy(changes.old)
      THEN [r EXCEPT !.result = PyTrue, !.changes = changes,
                     !.comment = "Data source " \o name \o " updated"]
      ELSE [r EXCEPT !.result = PyTrue, !.changes = EmptyDict,
                     !.comment = "Data source " \o name \o " already up-to-date"]

PresentPut(p) ==
    /\ pc[p] = "mutate" /\ op[p] = "present" /\ Truthy(datasource[p])
    /\ LET url == _get_url(GrafanaProfile, datasource[p].id)
           data == Data(args[p])
       IN  \E out \in Outcomes(datasources, nextId,
                               ServerPut(datasources, nextId, url, data)) :
             /\ datasources' = out.ds
             /\ nextId' = out.nid
             /\ lastApplied' = Applied("PUT", url, data, out)
             /\ calls' = [calls EXCEPT ![p] =
                            Append(@, Call("PUT", url, data, out.status))]
             /\ IF Raised(out.status)
                  THEN /\ pc' = [pc EXCEPT ![p] = "raised"]
                       /\ ret' = ret
                  ELSE /\ pc' = [pc EXCEPT ![p] = "returned"]
                       /\ ret' = [ret EXCEPT ![p] =
                             PresentPutResult(@, args[p].name,
                                              _diff(datasource[p], data))]
    /\ UNCHANGED <<op, args, datasource, prev, dif>>

\* The else branch of present: requests.post, changes = data.
PresentPost(p) ==
    /\ pc[p] = "mutate" /\ op[p] = "present" /\ ~Truthy(datasource[p])
    /\ nextId <= MaxId
    /\ LET url == ListUrl(GrafanaProfile)
           data == Data(args[p])
       IN  \E out \in Outcomes(datasources, nextId,
                               ServerPost(datasources, nextId, data)) :
             /\ datasources' = out.ds
             /\ nextId' = out.nid
             /\ lastApplied' = Applied("POST", url, data, out)
             /\ calls' = [calls EXCEPT ![p] =
                            Append(@, Call("POST", url, data, out.status))]
             /\ IF Raised(out.status)
                  THEN /\ pc' = [pc EXCEPT ![p] = "raised"]
                       /\ ret' = ret
                  ELSE /\ pc' = [pc EXCEPT ![p] = "returned"]
                       /\ ret' = [ret EXCEPT ![p] =
                             [@ EXCEPT !.result = PyTrue,
                                       !.comment = "New data source "
                                                   \o args[p].name \o " added",
                                       !.changes = data]]
    /\ UNCHANGED <<op, args, datasource, prev, dif>>

\* absent with a record found: requests.delete, then success.
AbsentDelete(p) ==
    /\ pc[p] = "mutate" /\ op[p] = "absent"
    /\ LET url == _get_url(GrafanaProfile, datasource[p].id)
       IN  \E out \in Outcomes(datasources, nextId,
                               ServerDelete(datasources, nextId, url)) :
             /\ datasources' = out.ds
             /\ nextId' = out.nid
             /\ lastApplied' = Applied("DELETE", url, EmptyDict, out)
             /\ calls' = [calls EXCEPT ![p] =
                            Append(@, Call("DELETE", url, EmptyDict, out.status))]
             /\ IF Raised(out.status)
                  THEN /\ pc' = [pc EXCEPT ![p] = "raised"]
                       /\ ret' = ret
                  ELSE /\ pc' = [pc EXCEPT ![p] = "returned"]
                       /\ ret' = [ret EXCEPT ![p] =
                             [@ EXCEPT !.result = PyTrue,
                                       !.comment = "Data source " \o args[p].name
                                                   \o " was deleted"]]
    /\ UNCHANGED <<op, args, datasource, prev, dif>>

\* Every call of the invocation was answered with status 200.
AllOk(cs) == \A i \in 1..Len(cs) : cs[i].status = 200

\* The invocation has ended (returned or raised) and its locals are gone; the
\* host engine goes on to its next state.
Finish(p) ==
    /\ pc[p] \in {"returned", "raised"}
    /\ prev' = IF op[p] = "present"
                 THEN [op |-> op[p], args |-> args[p],
                       clean |-> pc[p] = "returned" /\ AllOk(calls[p])]
                 ELSE [op |-> op[p]]
    /\ pc' = [pc EXCEPT ![p] = "idle"]
    /\ op' = [op EXCEPT ![p] = "none"]
    /\ args' = [args EXCEPT ![p] = EmptyDict]
    /\ datasource' = [datasource EXCEPT ![p] = None]
    /\ ret' = [ret EXCEPT ![p] = EmptyDict]
    /\ calls' = [calls EXCEPT ![p] = <<>>]
    /\ UNCHANGED <<srv, dif>>

----------------------------------------------------------------------------
(* Specifications *)

\* A record some other client created: another access mode, and a key the
\* payload of present does not have.
Foreign(name, id) ==
    [k \in DOMAIN Data([name |-> name, type |-> "graphite",
                        url |-> "http://localhost:8086", access |-> "direct",
                        user |-> "myuser", password |-> "", database |-> "",
                        basic_auth |-> PyTrue, basic_auth_user |-> "",
                        basic_auth_password |-> "", is_default |-> PyFalse,
                        json_data |-> PyNone]) \cup {"id", "orgId", "readOnly"} |->
       IF k = "id" THEN id
       ELSE IF k = "orgId" THEN "1"
       ELSE IF k = "readOnly" THEN PyFalse
       ELSE Data([name |-> name, type |-> "graphite",
                  url |-> "http://localhost:8086", access |-> "direct",
                  user |-> "myuser", password |-> "", database |-> "",
                  basic_auth |-> PyTrue, basic_auth_user |-> "",
                  basic_auth_password |-> "", is_default |-> PyFalse,
                  json_data |-> PyNone])[k]]

InitialServers ==
    {<<>>, <<Foreign("graphite", "1")>>,
     <<Foreign("graphite", "1"), Foreign("influxdb", "2")>>}

InitInvocations ==
    /\ datasources \in InitialServers
    /\ nextId = Len(datasources) + 1
    /\ lastApplied = [method |-> "none"]
    /\ pc = Idle
    /\ op = [p \in Procs |-> "none"]
    /\ args = [p \in Procs |-> EmptyDict]
    /\ datasource = [p \in Procs |-> None]
    /\ ret = [p \in Procs |-> EmptyDict]
    /\ calls = [p \in Procs |-> <<>>]
    /\ prev = [op |-> "none"]
    /\ dOld = EmptyDict /\ dNew = EmptyDict
    /\ dRes = [old |-> EmptyDict, new |-> EmptyDict]
    /\ dpc = "done"

Init == InitInvocations

\* One invocation after the other, as the host engine runs the states of a
\* single run.
Next ==
    \/ \E name \in Names, user \in Users, basic_auth \in Booleans :
         Present(1, name, user, basic_auth)
    \/ \E name \in Names : Absent(1, name)
    \/ GetDatasource(1)
    \/ PresentPut(1)
    \/ PresentPost(1)
    \/ AbsentDelete(1)
    \/ Finish(1)

Spec == Init /\ [][Next]_vars

\* Two invocations for the same name, started by two state runs the module
\* does not coordinate: their HTTP calls interleave in any order.
ConcName == "influxdb"

NextConc ==
    \E p \in Procs :
        \/ \E user \in Users, basic_auth \in Booleans :
             Present(p, ConcName, user, basic_auth)
        \/ Absent(p, ConcName)
        \/ GetDatasource(p)
        \/ PresentPut(p)
        \/ PresentPost(p)
        \/ AbsentDelete(p)

SpecConc == Init /\ [][NextConc]_vars

----------------------------------------------------------------------------
(* Vocabulary of the properties *)

PayloadKeys ==
    {"name", "type", "url", "access", "user", "password", "database",
     "basicAuth", "basicAuthUser", "basicAuthPassword", "isDefault", "jsonData"}

NCalls(cs, method) == Cardinality({i \in 1..Len(cs) : cs[i].method = method})

Restrict(d, keys) == [k \in keys |-> d[k]]

Returned(o) == pc[1] = "returned" /\ op[1] = o

\* The records the server holds under `name`.
Held(name) == Indexes(datasources, name)

\* The fragments the rules of the diff leave, stated key by key.
Dropped(old, new, k) ==
    k \in DOMAIN old /\ k \in DOMAIN new /\ k \notin {"id", "orgId"}
        /\ PyEq(old[k], new[k])
RuleOld(old, new) ==
    Restrict(old, {k \in DOMAIN old : /\ k \notin {"id", "orgId"}
                                      /\ k \in DOMAIN new
                                      /\ ~PyEq(old[k], new[k])})
RuleNew(old, new) ==
    Restrict(new, {k \in DOMAIN new : ~Dropped(old, new, k)})

----------------------------------------------------------------------------
(* C5: _diff *)

----------------------------------------------------------------------------
(* Properties of one invocation after the other (Spec) *)

Name1 == args[1].name
Data1 == _get_json_data(args[1].name, args[1].type, args[1].url, args[1].access,
                        args[1].user, args[1].password, args[1].database,
                        args[1].basic_auth, args[1].basic_auth_user,
                        args[1].basic_auth_password, args[1].is_default,
                        args[1].json_data)

\* C1: present called twice in a row with identical inputs, every request of
\* both calls answered with success and nothing else touching the server:
\* the second call returns result True, no changes, "already up-to-date".
C1_Idempotent ==
    (/\ Returned("present") /\ AllOk(calls[1])
     /\ prev.op = "present" /\ prev.clean /\ prev.args = args[1])
    => /\ ret[1].result = PyTrue
       /\ DOMAIN ret[1].changes = {}
       /\ ret[1].comment = "Data source " \o Name1 \o " already up-to-date"

\* The second of two identical calls has returned; the first had changed a
\* differing record or created the record.
C1_Witness ==
    /\ Returned("present") /\ AllOk(calls[1])
    /\ prev.op = "present" /\ prev.clean /\ prev.args = args[1]
    /\ NCalls(calls[1], "PUT") = 1
    /\ args[1].user = "" /\ args[1].basic_auth = PyFalse

\* C2: when the server holds no record of the name, the lookup of present
\* finds none, and present then issues exactly one POST, no PUT and no
\* DELETE, and returns result True, "New data source <name> added" and the
\* full payload of twelve fields as changes.
C2_CreateWhenAbsent ==
    /\ [](Returned("present") /\ ~Truthy(datasource[1]) =>
            /\ NCalls(calls[1], "POST") = 1
            /\ NCalls(calls[1], "PUT") = 0
            /\ NCalls(calls[1], "DELETE") = 0
            /\ calls[1][2].url = "https://url.com/api/datasources"
            /\ calls[1][2].data = ret[1].changes
            /\ ret[1].result = PyTrue
            /\ ret[1].comment = "New data source " \o Name1 \o " added"
            /\ DOMAIN ret[1].changes = PayloadKeys
            /\ ret[1].changes.name = Name1
            /\ ret[1].changes.type = args[1].type
            /\ ret[1].changes.url = args[1].url
            /\ ret[1].changes.access = args[1].access
            /\ ret[1].changes.user = args[1].user
            /\ ret[1].changes.password = args[1].password
            /\ ret[1].changes.database = args[1].database
            /\ ret[1].changes.basicAuth = args[1].basic_auth
            /\ ret[1].changes.basicAuthUser = args[1].basic_auth_user
            /\ ret[1].changes.basicAuthPassword = args[1].basic_auth_password
            /\ ret[1].changes.isDefault = args[1].is_default
            /\ ret[1].changes.jsonData = args[1].json_data)
    /\ [][(pc[1] = "lookup" /\ op[1] = "present" /\ Held(Name1) = {})
            => (pc'[1] = "raised" \/ (pc'[1] = "mutate" /\ ~Truthy(datasource'[1])))]_vars

\* present has created a record on a server that held another name only.
C2_Witness ==
    /\ Returned("present") /\ ~Truthy(datasource[1])
    /\ AllOk(calls[1])
    /\ Len(datasources) = 2
    /\ args[1].basic_auth = PyTrue

\* C3: absent on a server holding no record of the name issues the listing
\* GET and nothing else, leaves the server as it is and returns result True
\* with empty changes.
C3_AbsentNoop ==
    /\ [](Returned("absent") /\ ~Truthy(datasource[1]) =>
            /\ Len(calls[1]) = 1 /\ calls[1][1].method = "GET"
            /\ ret[1].result = PyTrue
            /\ DOMAIN ret[1].changes = {}
            /\ ret[1].comment = "Data source " \o Name1 \o " already absent")
    /\ [][(pc[1] = "lookup" /\ op[1] = "absent" /\ Held(Name1) = {})
            => /\ datasources' = datasources
               /\ pc'[1] \in {"returned", "raised"}
               /\ ~Truthy(datasource'[1])]_vars

\* absent has returned from a server that holds a record of another name.
C3_Witness ==
    /\ Returned("absent") /\ ~Truthy(datasource[1])
    /\ calls[1][1].status = 200
    /\ Len(datasources) = 1 /\ Held(Name1) = {}

\* C4 as stated: an invocation never returns when one of its HTTP calls got
\* no response or a response with a status other than 2xx.
C4_ErrorsPropagateAsStated ==
    pc[1] = "returned" => AllOk(calls[1])

\* C4 amended: a call that gets no response (requests raises) ends the
\* invocation in the exception with no result set; a response of the POST,
\* PUT or DELETE with a status other than 2xx is not detected, the
\* invocation returns result True.
C4_ErrorsPropagate ==
    /\ (\E i \in 1..Len(calls[1]) : calls[1][i].status = 0)
          => pc[1] = "raised" /\ ret[1].result = PyNone
    /\ (Len(calls[1]) = 2 /\ calls[1][2].status \notin {0, 200})
          => pc[1] = "returned" /\ ret[1].result = PyTrue

\* The PUT of present got no response, after a lookup that succeeded.
C4_Witness ==
    /\ pc[1] = "raised" /\ op[1] = "present"
    /\ Len(calls[1]) = 2 /\ calls[1][2].method = "PUT"
    /\ calls[1][2].status = 0

\* C6: when the lookup finds a record, present issues exactly one PUT with
\* the full desired payload to the id of that record, whatever the diff; a
\* PUT the server accepts leaves every payload field of that record equal to
\* the desired value.  A lookup answered with the list finds the record the
\* server holds under the name.
C6_FullPayloadPut ==
    /\ [](op[1] = "present" /\ Truthy(datasource[1]) /\ Len(calls[1]) = 2 =>
            /\ NCalls(calls[1], "PUT") = 1
            /\ NCalls(calls[1], "POST") = 0
            /\ NCalls(calls[1], "DELETE") = 0
            /\ calls[1][2].method = "PUT"
            /\ calls[1][2].url =
                 "https://url.com/api/datasources/" \o datasource[1].id
            /\ DOMAIN calls[1][2].data = PayloadKeys
            /\ calls[1][2].data.name = Name1
            /\ calls[1][2].data.user = args[1].user
            /\ calls[1][2].data.basicAuth = args[1].basic_auth
            /\ calls[1][2].data.access = args[1].access
            /\ calls[1][2].data.type = args[1].type
            /\ calls[1][2].status = 200 =>
                 \E i \in 1..Len(datasources) :
                    /\ datasources[i].id = datasource[1].id
                    /\ datasources[i].name = Name1
                    /\ datasources[i].type = args[1].type
                    /\ datasources[i].url = args[1].url
                    /\ datasources[i].access = args[1].access
                    /\ datasources[i].user = args[1].user
                    /\ datasources[i].password = args[1].password
                    /\ datasources[i].database = args[1].database
                    /\ datasources[i].basicAuth = args[1].basic_auth
                    /\ datasources[i].basicAuthUser = args[1].basic_auth_user
                    /\ datasources[i].basicAuthPassword = args[1].basic_auth_password
                    /\ datasources[i].isDefault = args[1].is_default
                    /\ datasources[i].jsonData = args[1].json_data)
    /\ [][(pc[1] = "lookup" /\ op[1] = "present" /\ Held(Name1) # {}
             /\ calls'[1][1].status = 200)
            => /\ pc'[1] = "mutate"
               /\ \E i \in Held(Name1) : datasource'[1] = datasources[i]]_vars

\* present has overwritten user "myuser" and basicAuth True of the record
\* found with the empty string and False.
C6_Witness ==
    /\ Returned("present") /\ Truthy(datasource[1])
    /\ calls[1][2].status = 200
    /\ datasource[1].user = "myuser" /\ datasource[1].basicAuth = PyTrue
    /\ args[1].user = "" /\ args[1].basic_auth = PyFalse
    /\ \E i \in Held(Name1) :
          datasources[i].user = "" /\ datasources[i].basicAuth = PyFalse

\* C7: when the lookup finds a record, absent issues exactly one DELETE to
\* the id of that record and, whatever the status of the response, returns
\* result True and "Data source <name> was deleted".
C7_DeleteUnchecked ==
    (op[1] = "absent" /\ Len(calls[1]) = 2) =>
        /\ Truthy(datasource[1])
        /\ calls[1][2].method = "DELETE"
        /\ NCalls(calls[1], "DELETE") = 1
        /\ NCalls(calls[1], "POST") = 0 /\ NCalls(calls[1], "PUT") = 0
        /\ calls[1][2].url = "https://url.com/api/datasources/" \o datasource[1].id
        /\ calls[1][2].status # 0 =>
             /\ pc[1] = "returned"
             /\ ret[1].result = PyTrue
             /\ ret[1].comment = "Data source " \o Name1 \o " was deleted"
             /\ DOMAIN ret[1].changes = {}

\* absent has reported success after the server refused the DELETE.
C7_Witness ==
    /\ Returned("absent") /\ Len(calls[1]) = 2
    /\ calls[1][2].status = 500
    /\ Held(Name1) # {}

\* The keys of the payload whose remote value differs from the desired one.
Differing(old, new) ==
    {k \in DOMAIN new : k \notin DOMAIN old \/ ~PyEq(old[k], new[k])}

\* C8: when the lookup finds a record, present returns result True; with
\* "Data source <name> updated" and the fragments {old, new} of the differing
\* keys when there is one, else with "already up-to-date" and no changes.
\* id, orgId and keys of equal value never count as differing.
C8_UpdateReport ==
    Returned("present") /\ Truthy(datasource[1]) =>
        /\ ret[1].result = PyTrue
        /\ IF Differing(datasource[1], Data1) # {}
             THEN /\ ret[1].comment = "Data source " \o Name1 \o " updated"
                  /\ DOMAIN ret[1].changes = {"old", "new"}
                  /\ ret[1].changes.new =
                       Restrict(Data1, Differing(datasource[1], Data1))
                  /\ ret[1].changes.old =
                       Restrict(datasource[1],
                                Differing(datasource[1], Data1) \cap DOMAIN datasource[1])
             ELSE /\ ret[1].comment = "Data source " \o Name1 \o " already up-to-date"
                  /\ DOMAIN ret[1].changes = {}

\* present has reported the update of two differing fields of a record that
\* also carries id, orgId and equal fields.
C8_Witness ==
    /\ Returned("present") /\ Truthy(datasource[1])
    /\ ret[1].comment = "Data source " \o Name1 \o " updated"
    /\ DOMAIN ret[1].changes.old = {"user", "basicAuth"}
    /\ DOMAIN ret[1].changes.new = {"user", "basicAuth"}

\* C9 as stated: an invocation that has ended has made one HTTP call.
C9_OneCallAsStated ==
    pc[1] \in {"returned", "raised"} => Len(calls[1]) = 1

\* C9 amended: an invocation makes its HTTP calls one after the other and
\* none twice: the listing GET first, then at most one mutating call.  A
\* present that returns has made two calls (the GET and one POST or PUT), an
\* absent that returns one (GET) or, with a record found, two (GET, DELETE).
C9_CallsPerInvocation ==
    /\ Len(calls[1]) <= 2
    /\ Len(calls[1]) >= 1 => calls[1][1].method = "GET"
    /\ Len(calls[1]) = 2 => /\ calls[1][2].method \in {"POST", "PUT", "DELETE"}
                            /\ ~Raised(calls[1][1].status)
    /\ pc[1] = "lookup" => Len(calls[1]) = 0
    /\ pc[1] = "mutate" => Len(calls[1]) = 1
    /\ Returned("present") => Len(calls[1]) = 2
    /\ Returned("absent") => Len(calls[1]) = IF Truthy(datasource[1]) THEN 2 ELSE 1
    /\ pc[1] = "raised" => Raised(calls[1][Len(calls[1])].status)
                           \/ Len(calls[1]) = 1

\* present has returned after its two calls.
C9_Witness ==
    /\ Returned("present") /\ Len(calls[1]) = 2
    /\ calls[1][1].method = "GET" /\ calls[1][2].method = "POST"

----------------------------------------------------------------------------
(* Property of two interleaved invocations (SpecConc) *)

\* C10: whatever the interleaving of two invocations for the same name, the
\* server's state for the name is the one the mutating call it applied last
\* produced: one record with the payload of that POST or PUT, or no record
\* after a DELETE.
C10_LastWriteWins ==
    /\ lastApplied.method \in {"POST", "PUT"} =>
         /\ Cardinality(Held(ConcName)) = 1
         /\ \A i \in Held(ConcName) :
              Restrict(datasources[i], PayloadKeys) = lastApplied.data
    /\ lastApplied.method = "DELETE" => Held(ConcName) = {}

\* Both invocations looked up before either changed the server, and the
\* server applied the request of the first and refused that of the second.
C10_Witness ==
    /\ pc[1] = "returned" /\ pc[2] = "returned"
    /\ Len(calls[1]) = 2 /\ Len(calls[2]) = 2
    /\ calls[1][1].status = 200 /\ calls[2][1].status = 200
    /\ calls[1][2].status = 200
    /\ calls[2][2].status \in {404, 409}
    /\ lastApplied.method # "none"

====
